---- MODULE Spec2Model ----
(***************************************************************************)
(* PortalIQ: the transfer-portal ingestion pipeline                        *)
(* (backend/ingest_transfers.py) and the TVI scoring engine                *)
(* (backend/tvi_engine.py).                                                *)
(*                                                                         *)
(* Text is modelled as a sequence of one-character strings so that         *)
(* str.strip() and str.lower() are computed, not assumed.  Python's None   *)
(* is the value None below (a one-element sequence that no text equals).   *)
(* Python floats are modelled as exact ratios [num, den]; a ratio with     *)
(* den = 0 stands for a raised ZeroDivisionError.                          *)
(***************************************************************************)
EXTENDS Integers, Sequences, FiniteSets, TLC

VARIABLES
    teams, seasons, players, player_season_stats, tvi_scores,
    pc, year, transfers, team_index, season_id, idx, processed,
    player_id, current_team_id, result, hist,
    mode, stats_in, meta_in, raw_in, tvi_out, norm_out,
    adapter_in, adapter_out

storeVars == <<teams, seasons, players, player_season_stats, tvi_scores>>
runVars == <<pc, year, transfers, team_index, season_id, idx, processed,
             player_id, current_team_id, result>>
fnVars == <<mode, stats_in, meta_in, raw_in, tvi_out, norm_out,
            adapter_in, adapter_out>>
vars == <<storeVars, runVars, hist, fnVars>>

-----------------------------------------------------------------------------
(* Text *)

None == <<"None">>

UpperChars == <<"A","B","C","D","E","F","G","H","I","J","K","L","M",
                "N","O","P","Q","R","S","T","U","V","W","X","Y","Z">>
LowerChars == <<"a","b","c","d","e","f","g","h","i","j","k","l","m",
                "n","o","p","q","r","s","t","u","v","w","x","y","z">>

LowerChar(c) ==
    IF \E i \in 1..Len(UpperChars) : UpperChars[i] = c
    THEN LowerChars[CHOOSE i \in 1..Len(UpperChars) : UpperChars[i] = c]
    ELSE c

lower(s) == [i \in 1..Len(s) |-> LowerChar(s[i])]

IsSpace(c) == c \in {" ", "\t", "\n"}

RECURSIVE lstrip(_)
lstrip(s) == IF s # <<>> /\ IsSpace(Head(s)) THEN lstrip(Tail(s)) ELSE s

RECURSIVE rstrip(_)
rstrip(s) ==
    IF s # <<>> /\ IsSpace(s[Len(s)]) THEN rstrip(SubSeq(s, 1, Len(s) - 1)) ELSE s

strip(s) == rstrip(lstrip(s))

\* Python truthiness of an Optional[str]
Truthy(s) == s # None /\ s # <<>>

RECURSIVE DigitsOf(_)
DigitsOf(n) ==
    LET d == <<"0","1","2","3","4","5","6","7","8","9">>[(n % 10) + 1]
    IN  IF n < 10 THEN <<d>> ELSE Append(DigitsOf(n \div 10), d)

\* str(n) for a non-negative integer
str(n) == DigitsOf(n)

-----------------------------------------------------------------------------
(* Ratios *)

Frac(n, d) == [num |-> n, den |-> d]
ZeroDivisionError == Frac(0, 0)
Raised(r) == r.den = 0
RatEq(a, b) == a.den # 0 /\ b.den # 0 /\ a.num * b.den = b.num * a.den
RatLe(a, b) == a.num * b.den <= b.num * a.den
RatMin(a, b) == IF RatLe(a, b) THEN a ELSE b
RatAdd(a, b) ==
    IF Raised(a) \/ Raised(b) THEN ZeroDivisionError
    ELSE Frac(a.num * b.den + b.num * a.den, a.den * b.den)
\* Python's `/` on a ratio and an integer
TrueDiv(a, n) == IF Raised(a) \/ n = 0 THEN ZeroDivisionError ELSE Frac(a.num, a.den * n)

-----------------------------------------------------------------------------
(* tvi_engine.py *)

\* _safe_divide without its zero guard
UnguardedDivide(numerator, denominator) == TrueDiv(Frac(numerator, 1), denominator)

_safe_divide(numerator, denominator) ==
    IF denominator = 0 THEN Frac(0, 1)
    ELSE TrueDiv(Frac(numerator, 1), denominator)

\* _experience_score comparing class_year as given, neither trimmed nor lowercased
ExperienceAsGiven(cy) ==
    IF ~Truthy(cy) THEN Frac(1, 2)
    ELSE IF cy \in {<<"s","r">>, <<"s","e","n","i","o","r">>} THEN Frac(1, 1)
    ELSE IF cy \in {<<"j","r">>, <<"j","u","n","i","o","r">>} THEN Frac(4, 5)
    ELSE IF cy \in {<<"s","o">>, <<"s","o","p","h">>,
                    <<"s","o","p","h","o","m","o","r","e">>} THEN Frac(3, 5)
    ELSE IF cy \in {<<"f","r">>, <<"f","r","e","s","h","m","a","n">>} THEN Frac(2, 5)
    ELSE Frac(1, 2)

_experience_score(cy) ==
    IF ~Truthy(cy) THEN Frac(1, 2)
    ELSE LET normalized == lower(strip(cy))
         IN  IF normalized \in {<<"s","r">>, <<"s","e","n","i","o","r">>}
                 THEN Frac(1, 1)
             ELSE IF normalized \in {<<"j","r">>, <<"j","u","n","i","o","r">>}
                 THEN Frac(4, 5)
             ELSE IF normalized \in {<<"s","o">>, <<"s","o","p","h">>,
                                     <<"s","o","p","h","o","m","o","r","e">>}
                 THEN Frac(3, 5)
             ELSE IF normalized \in {<<"f","r">>, <<"f","r","e","s","h","m","a","n">>}
                 THEN Frac(2, 5)
             ELSE Frac(1, 2)

\* A stats dict is a function from its keys to <<>> (None) or <<n>> (the number n).
\* float(stats.get(key, 0) or 0)
StatOf(stats, key) ==
    IF key \in DOMAIN stats /\ stats[key] # <<>> THEN stats[key][1] ELSE 0

\* The keys compute_tvi reads for touchdowns and interceptions.
TdsKey == "tds"
IntsKey == "ints"

\* the usage ratio without its cap at 1
UsageUncapped(snaps) == _safe_divide(snaps, 800)

Usage(snaps) == RatMin(_safe_divide(snaps, 800), Frac(1, 1))

\* the efficiency formula with the touchdown weight halved
EfficiencyWrongWeight(yards, tds, interceptions, snaps) ==
    _safe_divide(yards + 10 * tds + 5 * interceptions, snaps)

Efficiency(yards, tds, interceptions, snaps) ==
    _safe_divide(yards + 20 * tds + 5 * interceptions, snaps)

\* compute_tvi averaging over three components instead of all four
TviOverThree(stats, player_meta) ==
    LET snaps == StatOf(stats, "snaps")
        usage == Usage(snaps)
        efficiency == Efficiency(StatOf(stats, "yards"), StatOf(stats, TdsKey),
                                 StatOf(stats, IntsKey), snaps)
        durability == _safe_divide(StatOf(stats, "games_played"), 12)
        experience == _experience_score(
            IF "class_year" \in DOMAIN player_meta THEN player_meta["class_year"] ELSE None)
        total == RatAdd(RatAdd(RatAdd(usage, efficiency), durability), experience)
    IN  [tvi |-> TrueDiv(total, 3),
         components |-> [usage |-> usage, efficiency |-> efficiency,
                         durability |-> durability, experience |-> experience]]

compute_tvi(stats, player_meta) ==
    LET snaps == StatOf(stats, "snaps")
        yards == StatOf(stats, "yards")
        tds == StatOf(stats, TdsKey)
        interceptions == StatOf(stats, IntsKey)
        games == StatOf(stats, "games_played")
        usage == Usage(snaps)
        efficiency == Efficiency(yards, tds, interceptions, snaps)
        durability == _safe_divide(games, 12)
        experience == _experience_score(
            IF "class_year" \in DOMAIN player_meta THEN player_meta["class_year"] ELSE None)
        components == [usage |-> usage, efficiency |-> efficiency,
                       durability |-> durability, experience |-> experience]
        total == RatAdd(RatAdd(RatAdd(usage, efficiency), durability), experience)
    IN  [tvi |-> TrueDiv(total, 4), components |-> components]

-----------------------------------------------------------------------------
(* ingest_transfers.py: source data the adapters can return *)

NoneId == 0

Alabama == [name |-> <<"A","l","a","b","a","m","a">>,
            short_name |-> <<"C","r","i","m","s","o","n"," ","T","i","d","e">>,
            conference |-> "SEC", school_id |-> 333]
Auburn == [name |-> <<"A","u","b","u","r","n">>,
           short_name |-> <<"T","i","g","e","r","s">>,
           conference |-> "SEC", school_id |-> 2]

\* get_fbs_teams() results: lists of team dicts with distinct ESPN ids
TeamFeeds == {<<Alabama>>, <<Alabama, Auburn>>}

AlBo == <<"A","l"," ","B","o">>

\* get_on3_transfers() records (position, height, weight, high_school, rating
\* and raw_lines are copied through unread and are left out).  The two cards
\* carry the same player name under different dedup keys.
TransferPool ==
    << [player_name |-> AlBo, class_year |-> <<"J","R">>,
        status |-> "Entered", entered_date |-> "11/16/2025",
        on3_team |-> <<"A","L","A","B","A","M","A">>],
       [player_name |-> AlBo, class_year |-> <<"R","S","-","J","R">>,
        status |-> "Committed", entered_date |-> "None",
        on3_team |-> None] >>

MaxRuns == 2

DedupKey(t) == <<t.player_name, t.status, t.entered_date>>

\* The lists get_on3_transfers can return, in page order: no two records share
\* a dedup key.
TransferLists ==
    { s \in UNION { [1..n -> 1..Len(TransferPool)] : n \in 0..Len(TransferPool) } :
        \A i, j \in 1..Len(s) : i < j => s[i] < s[j] }

FeedOf(s) == [i \in 1..Len(s) |-> TransferPool[s[i]]]

Years == {2024, 2025}

-----------------------------------------------------------------------------
(* The store: tables of rows; ids are assigned by the store on insert *)

MaxOf(S) == IF S = {} THEN 0 ELSE CHOOSE m \in S : \A x \in S : x <= m
NextId(tbl) == MaxOf({r.id : r \in tbl}) + 1

\* .upsert(payload, on_conflict="school_id") on teams, one payload row
UpsertTeam(tbl, p) ==
    LET hit == {r \in tbl : r.school_id = p.school_id}
        rid == IF hit = {} THEN NextId(tbl) ELSE (CHOOSE r \in hit : TRUE).id
        row == [id |-> rid, name |-> p.name, short_name |-> p.short_name,
                conference |-> p.conference, school_id |-> p.school_id]
    IN  (tbl \ hit) \cup {row}

RECURSIVE UpsertTeamRows(_, _)
UpsertTeamRows(tbl, payload) ==
    IF payload = <<>> THEN tbl
    ELSE UpsertTeamRows(UpsertTeam(tbl, Head(payload)), Tail(payload))

\* the representation the store returns for an upserted teams payload
TeamRowsFor(tbl, payload) ==
    [i \in 1..Len(payload) |-> CHOOSE r \in tbl : r.school_id = payload[i].school_id]

\* .upsert({"year": year}, on_conflict="year") on seasons
UpsertSeason(tbl, y) ==
    IF \E r \in tbl : r.year = y THEN tbl
    ELSE tbl \cup {[id |-> NextId(tbl), year |-> y]}

\* .upsert(payload, on_conflict="cfbd_player_id") on players: a NULL key never
\* conflicts, so a payload whose cfbd_player_id is None is always inserted
PlayerRow(rid, p) ==
    [id |-> rid, full_name |-> p.full_name, class_year |-> p.class_year,
     cfbd_player_id |-> p.cfbd_player_id, current_team_id |-> p.current_team_id]

UpsertPlayer(tbl, p) ==
    LET hit == {r \in tbl : p.cfbd_player_id # None
                            /\ r.cfbd_player_id = p.cfbd_player_id}
        rid == IF hit = {} THEN NextId(tbl) ELSE (CHOOSE r \in hit : TRUE).id
    IN  (tbl \ hit) \cup {PlayerRow(rid, p)}

\* a plain insert in place of the upsert on (player_id, season_id)
InsertStats(tbl, p) == tbl \cup {p}

\* .upsert(payload, on_conflict="player_id,season_id") on player_season_stats
UpsertStats(tbl, p) ==
    (tbl \ {r \in tbl : r.player_id = p.player_id /\ r.season_id = p.season_id})
        \cup {p}

\* .upsert(payload, on_conflict="player_id,season_id,model_version") on tvi_scores
UpsertTvi(tbl, p) ==
    (tbl \ {r \in tbl : /\ r.player_id = p.player_id
                        /\ r.season_id = p.season_id
                        /\ r.model_version = p.model_version})
        \cup {p}

\* What an upsert call can come back with: the row written and returned, the
\* row written with an empty response.data, or nothing written and an empty
\* response.data.  The pipeline branches on all three.
StoreOutcomes == {"returned", "silent", "noop"}

-----------------------------------------------------------------------------
(* ingest_transfers.py: helpers *)

_normalize_team_payload(team) ==
    [name |-> team.name, short_name |-> team.short_name,
     conference |-> team.conference, school_id |-> team.school_id]

\* index[key] = row, a later row replacing an earlier one under the same key
Put(index, key, row) ==
    [k \in DOMAIN index \cup {key} |-> IF k = key THEN row ELSE index[k]]

IndexRow(index, row) ==
    LET byName == IF Truthy(row.name)
                  THEN Put(index, lower(strip(row.name)), row) ELSE index
    IN  IF Truthy(row.short_name)
        THEN Put(byName, lower(strip(row.short_name)), row) ELSE byName

RECURSIVE IndexRows(_, _)
IndexRows(index, rows) ==
    IF rows = <<>> THEN index ELSE IndexRows(IndexRow(index, Head(rows)), Tail(rows))

_build_team_index(team_rows) == IndexRows(<<>>, team_rows)

\* lines 175-180: the team id for a team reference, NoneId when there is none
ResolveTeam(index, on3_team) ==
    IF ~Truthy(on3_team) THEN NoneId
    ELSE LET key == lower(strip(on3_team))
         IN  IF key \in DOMAIN index THEN index[key].id ELSE NoneId

StatKeys == {"games_played", "snaps", "targets", "receptions", "yards",
             "tds", "tackles", "pass_breakups", "ints"}

_normalize_stats(raw) == [k \in StatKeys |-> <<0>>]

\* lines 164, 187-197
PlayerPayload(t, team_id) ==
    [full_name |-> strip(IF Truthy(t.player_name) THEN t.player_name ELSE <<>>),
     class_year |-> t.class_year,
     cfbd_player_id |-> None,
     current_team_id |-> team_id]

\* lines 238-252
StatsPayload(pid, team_id, sid, sp) ==
    [player_id |-> pid, team_id |-> team_id, season_id |-> sid,
     games_played |-> sp["games_played"][1], snaps |-> sp["snaps"][1],
     targets |-> sp["targets"][1], receptions |-> sp["receptions"][1],
     yards |-> sp["yards"][1], tds |-> sp["tds"][1], tackles |-> sp["tackles"][1],
     pass_breakups |-> sp["pass_breakups"][1], ints |-> sp["ints"][1]]

ModelVersion == "v1"

\* lines 262-269
TviPayload(pid, team_id, sid, rec) ==
    [player_id |-> pid, team_id |-> team_id, season_id |-> sid,
     tvi |-> rec.tvi, components |-> rec.components,
     model_version |-> ModelVersion]

-----------------------------------------------------------------------------
(* History of the first two runs, kept only to compare the store after them *)

HistNone ==
    [n |-> 0, live |-> TRUE, in1 |-> <<>>, store1 |-> <<>>,
     done1 |-> FALSE, done2 |-> FALSE]
HistDead(k) ==
    [n |-> k, live |-> FALSE, in1 |-> <<>>, store1 |-> <<>>,
     done1 |-> FALSE, done2 |-> FALSE]

HistStart(h, y, tr) ==
    IF h.n = 0 THEN [h EXCEPT !.n = 1, !.in1 = <<y, tr, <<>>>>]
    ELSE IF h.n = 1 /\ h.live /\ h.done1 /\ h.in1[1] = y /\ h.in1[2] = tr
    THEN [h EXCEPT !.n = 2]
    ELSE HistDead(h.n + 1)

HistTeams(h, feed) ==
    IF ~h.live THEN h
    ELSE IF h.n = 1 THEN [h EXCEPT !.in1[3] = feed]
    ELSE IF h.in1[3] # feed THEN HistDead(h.n)
    ELSE h

HistReturn(h, store) ==
    IF ~h.live THEN h
    ELSE IF h.n = 1 THEN [h EXCEPT !.done1 = TRUE, !.store1 = store]
    ELSE [h EXCEPT !.done2 = TRUE]

HistAbort(h) == HistDead(h.n)

\* the comparison is kept only while the store answers every upsert with the
\* row it wrote
HistStore(h, answered) == IF answered THEN h ELSE HistDead(h.n)

-----------------------------------------------------------------------------
(* ingest_transfers(year): one action per step of the run *)

Init ==
    /\ teams = {} /\ seasons = {} /\ players = {}
    /\ player_season_stats = {} /\ tvi_scores = {}
    /\ pc = "idle" /\ year = 0 /\ transfers = <<>> /\ team_index = <<>>
    /\ season_id = NoneId /\ idx = 1 /\ processed = 0
    /\ player_id = NoneId /\ current_team_id = NoneId
    /\ result = <<>> /\ hist = HistNone
    /\ mode = "pipeline" /\ stats_in = <<>> /\ meta_in = <<>> /\ raw_in = <<>>
    /\ tvi_out = <<>> /\ norm_out = <<>>
    /\ adapter_in = <<>> /\ adapter_out = <<>>

Idle == pc \in {"idle", "done", "aborted"}

\* The frame of ingest_transfers ends with the call: its locals are gone.
\* what ingest_transfers leaves its caller with when an exception goes out of it
RaisedOut(message) == [raised |-> message]

On3WireError == RaisedOut("On3 wire request failed")
EspnTeamsError == RaisedOut("Failed to fetch ESPN teams")

FrameEnds ==
    /\ year' = 0 /\ transfers' = <<>> /\ team_index' = <<>>
    /\ season_id' = NoneId /\ idx' = 1 /\ processed' = 0
    /\ player_id' = NoneId /\ current_team_id' = NoneId

\* lines 138-141: get_on3_transfers() returned a list
StartRun ==
    /\ Idle /\ hist.n < MaxRuns
    /\ \E y \in Years, s \in TransferLists :
        /\ year' = y
        /\ transfers' = FeedOf(s)
        /\ hist' = HistStart(hist, y, FeedOf(s))
    /\ pc' = "teams"
    /\ result' = <<>>
    /\ UNCHANGED <<storeVars, team_index, season_id, idx, processed, player_id,
                   current_team_id, fnVars>>

\* on3_client.py lines 42-45: the wire fetch raised, the run aborts
WireFetchFails ==
    /\ Idle /\ hist.n < MaxRuns
    /\ pc' = "aborted"
    /\ hist' = HistDead(hist.n + 1)
    /\ result' = On3WireError
    /\ UNCHANGED <<storeVars, year, transfers, team_index, season_id, idx,
                   processed, player_id, current_team_id, fnVars>>

\* _upsert_teams, lines 56-67
UpsertTeams ==
    /\ pc = "teams"
    /\ \E feed \in TeamFeeds, returned \in BOOLEAN :
        LET payload == [i \in 1..Len(feed) |-> _normalize_team_payload(feed[i])]
            tbl == UpsertTeamRows(teams, payload)
            data == IF returned THEN TeamRowsFor(tbl, payload) ELSE <<>>
        IN  /\ teams' = tbl
            /\ team_index' = _build_team_index(data)
            /\ hist' = HistStore(HistTeams(hist, feed), returned)
    /\ pc' = "season"
    /\ UNCHANGED <<seasons, players, player_season_stats, tvi_scores, year,
                   transfers, season_id, idx, processed, player_id,
                   current_team_id, result, fnVars>>

\* the team fetch raising only after _upsert_teams has written the teams
TeamFetchFailsAfterUpsert ==
    /\ pc = "teams"
    /\ pc' = "aborted"
    /\ hist' = HistAbort(hist)
    /\ result' = EspnTeamsError
    /\ FrameEnds
    /\ teams' = UpsertTeamRows(teams, <<_normalize_team_payload(Alabama)>>)
    /\ UNCHANGED <<seasons, players, player_season_stats, tvi_scores, fnVars>>

\* team_client.py lines 62-63: the team fetch raised inside _upsert_teams
TeamFetchFails ==
    /\ pc = "teams"
    /\ pc' = "aborted"
    /\ hist' = HistAbort(hist)
    /\ result' = EspnTeamsError
    /\ FrameEnds
    /\ UNCHANGED <<storeVars, fnVars>>

\* _ensure_season, lines 78-95
EnsureSeason ==
    /\ pc = "season"
    /\ \E o \in StoreOutcomes :
        LET tbl == IF o = "noop" THEN seasons ELSE UpsertSeason(seasons, year)
            data == IF o = "returned" THEN {r \in tbl : r.year = year} ELSE {}
            found == {r \in tbl : r.year = year}
            rows == IF data # {} THEN data ELSE found
        IN  /\ seasons' = tbl
            /\ IF rows # {}
               THEN /\ season_id' = (CHOOSE r \in rows : TRUE).id
                    /\ pc' = "loop" /\ hist' = HistStore(hist, o = "returned")
                    /\ UNCHANGED <<year, transfers, team_index, idx, processed,
                                   player_id, current_team_id, result>>
               ELSE \* .single() raises when no row matches
                    /\ pc' = "aborted" /\ hist' = HistAbort(hist)
                    /\ result' = RaisedOut("no season row")
                    /\ FrameEnds
    /\ UNCHANGED <<teams, players, player_season_stats, tvi_scores, fnVars>>

\* The rows .select("id").eq("full_name", full_name).limit(1) may return
LookupByName(tbl, full_name) == {r \in tbl : r.full_name = full_name}

\* a record whose player row is missing still goes on to the stat write
SkipRecordMissing == player_id' = NoneId /\ pc' = "stats" /\ idx' = idx

\* lines 229-231: `continue`
SkipRecord == player_id' = player_id /\ pc' = "loop" /\ idx' = idx + 1

\* lines 149-233: resolve the team, upsert the player, fall back to the lookup,
\* skip the record when no row came back
ResolvePlayer ==
    /\ pc = "loop" /\ idx <= Len(transfers)
    /\ LET t == transfers[idx]
           team_id == ResolveTeam(team_index, t.on3_team)
           payload == PlayerPayload(t, team_id)
       IN  /\ current_team_id' = team_id
           /\ \E o \in StoreOutcomes :
               LET tbl == IF o = "noop" THEN players ELSE UpsertPlayer(players, payload)
                   data == IF o = "returned" THEN tbl \ players ELSE {}
                   found == LookupByName(tbl, payload.full_name)
               IN  /\ players' = tbl
                   /\ hist' = HistStore(hist, o = "returned")
                   /\ IF data # {}
                      THEN /\ player_id' = (CHOOSE r \in data : TRUE).id
                           /\ pc' = "stats" /\ idx' = idx
                      ELSE IF found # {}
                      THEN /\ \E r \in found : player_id' = r.id
                           /\ pc' = "stats" /\ idx' = idx
                      ELSE SkipRecord
    /\ UNCHANGED <<teams, seasons, player_season_stats, tvi_scores, year,
                   transfers, team_index, season_id, processed, result, fnVars>>

\* lines 236-257
WriteStats ==
    /\ pc = "stats"
    /\ player_season_stats' =
         UpsertStats(player_season_stats,
                     StatsPayload(player_id, current_team_id, season_id,
                                  _normalize_stats(<<>>)))
    /\ pc' = "tvi"
    /\ UNCHANGED <<teams, seasons, players, tvi_scores, year, transfers,
                   team_index, season_id, idx, processed, player_id,
                   current_team_id, result, hist, fnVars>>

\* lines 200-205: the dict handed to compute_tvi
Features(t, team_id) ==
    [full_name |-> strip(IF Truthy(t.player_name) THEN t.player_name ELSE <<>>),
     class_year |-> t.class_year]

\* lines 260-276
WriteTvi ==
    /\ pc = "tvi"
    /\ LET rec == compute_tvi(_normalize_stats(<<>>),
                              Features(transfers[idx], current_team_id))
       IN  IF Raised(rec.tvi)
           THEN /\ pc' = "aborted" /\ hist' = HistAbort(hist)
                /\ result' = RaisedOut("ZeroDivisionError")
                /\ FrameEnds
                /\ UNCHANGED tvi_scores
           ELSE /\ tvi_scores' =
                     UpsertTvi(tvi_scores,
                               TviPayload(player_id, current_team_id, season_id, rec))
                /\ processed' = processed + 1
                /\ idx' = idx + 1
                /\ pc' = "loop" /\ hist' = hist
                /\ UNCHANGED <<year, transfers, team_index, season_id, player_id,
                               current_team_id, result>>
    /\ UNCHANGED <<teams, seasons, players, player_season_stats, fnVars>>

\* line 278
Return ==
    /\ pc = "loop" /\ idx > Len(transfers)
    /\ result' = [processed |-> processed]
    /\ pc' = "done"
    /\ hist' = HistReturn(hist, storeVars)
    /\ FrameEnds
    /\ UNCHANGED <<storeVars, fnVars>>

Next ==
    \/ StartRun
    \/ WireFetchFails
    \/ UpsertTeams
    \/ TeamFetchFails
    \/ EnsureSeason
    \/ ResolvePlayer
    \/ WriteStats
    \/ WriteTvi
    \/ Return

Spec == Init /\ [][Next]_vars

-----------------------------------------------------------------------------
(* Properties of the ingestion runs, checked under Spec *)

Ids(tbl) == {r.id : r \in tbl}

\* C1: a second run on the same year, transfer list and team list, right after
\* a first run on an empty store, leaves every table as the first run left it
\* (both runs complete, and the store answers every upsert with the row it
\* wrote).
C1_SecondRunAddsNoRow ==
    (hist.live /\ hist.n = 2 /\ hist.done2) => storeVars = hist.store1

RefsExist(r) ==
    /\ r.player_id \in Ids(players)
    /\ r.season_id \in Ids(seasons)
    /\ r.team_id = NoneId \/ r.team_id \in Ids(teams)

\* C2: every stat row and every score row references an existing player and an
\* existing season (and an existing team or none), and when a run is about to
\* write a stat or score row the player, season and team it will reference
\* are already stored.
C2_ReferencesExist ==
    /\ \A r \in player_season_stats : RefsExist(r)
    /\ \A r \in tvi_scores : RefsExist(r)
    /\ pc \in {"stats", "tvi"} =>
         /\ player_id \in Ids(players)
         /\ season_id \in Ids(seasons)
         /\ current_team_id = NoneId \/ current_team_id \in Ids(teams)

C2_RowsWrittenForTwoPlayers ==
    /\ pc = "done"
    /\ Cardinality(players) >= 2
    /\ Cardinality({r.player_id : r \in player_season_stats}) >= 2
    /\ Cardinality({r.player_id : r \in tvi_scores}) >= 2
    /\ \E r \in tvi_scores : r.team_id # NoneId

\* C3: there is at most one stat row per (player_id, season_id) and one score
\* row per (player_id, season_id, model_version); the row under a key is the
\* one written last; every score row has model_version "v1".
C3_OneRowPerKey ==
    /\ \A a, b \in player_season_stats :
         (a.player_id = b.player_id /\ a.season_id = b.season_id) => a = b
    /\ \A a, b \in tvi_scores :
         (/\ a.player_id = b.player_id /\ a.season_id = b.season_id
          /\ a.model_version = b.model_version) => a = b
    /\ \A r \in tvi_scores : r.model_version = "v1"
    /\ pc = "tvi" =>
         \E r \in player_season_stats :
            /\ r.player_id = player_id /\ r.season_id = season_id
            /\ r.team_id = current_team_id

\* the second stat write of a run has landed on the key of the first
C3_SecondWriteOverwrote ==
    /\ pc = "tvi" /\ processed = 1
    /\ Cardinality(player_season_stats) = 1
    /\ Cardinality(tvi_scores) = 1
    /\ \E r \in tvi_scores, q \in player_season_stats : r.team_id # q.team_id

\* C4: when the player upsert of a record has written a row, the player id the
\* record goes on with (from the response or from the full-name lookup) is
\* the id of that row.
C4_FallbackFindsOwnRow ==
    [][(pc = "loop" /\ pc' = "stats" /\ players' # players)
         => player_id' \in Ids(players' \ players)]_vars

\* the counters the run keeps (line 147)
RunCounters == <<processed>>

Unresolvable ==
    /\ pc = "loop" /\ idx <= Len(transfers)
    /\ players' = players
    /\ LookupByName(players, PlayerPayload(transfers[idx], NoneId).full_name) = {}

\* C5: a record whose player is neither created nor found is skipped alone:
\* no stat or score row is written, the run goes on with the next record, and
\* a counter of the run is incremented for the skip.
C5_SkipIsCounted ==
    [][Unresolvable =>
         /\ player_season_stats' = player_season_stats
         /\ tvi_scores' = tvi_scores
         /\ pc' = "loop" /\ idx' = idx + 1
         /\ \E i \in DOMAIN RunCounters : RunCounters'[i] = RunCounters[i] + 1]_vars

\* C6: the value a completed run returns reports processed and skipped, and
\* they add up to the number of transfer records.
C6_TallyReportsSkipped ==
    [][(pc = "loop" /\ pc' = "done") =>
         /\ {"processed", "skipped"} \subseteq DOMAIN result'
         /\ result'["processed"] = processed
         /\ result'["processed"] + result'["skipped"] = Len(transfers)]_vars

UpperChar(c) ==
    IF \E i \in 1..Len(LowerChars) : LowerChars[i] = c
    THEN UpperChars[CHOOSE i \in 1..Len(LowerChars) : LowerChars[i] = c]
    ELSE c

upper(s) == [i \in 1..Len(s) |-> UpperChar(s[i])]

IndexedTeams == {team_index[k] : k \in DOMAIN team_index}

\* C7: for every team in the index, resolving by its external id and resolving
\* by its name in any letter case give that team's id; a team under no key
\* resolves to none.
C7_ResolveByIdOrName ==
    /\ \A row \in IndexedTeams :
         /\ ResolveTeam(team_index, str(row.school_id)) = row.id
         /\ \A v \in {row.name, lower(row.name), upper(row.name)} :
              ResolveTeam(team_index, v) = row.id
    /\ ResolveTeam(team_index, <<"T","r","o","y">>) = NoneId

------------------------------------------------------------------------\* C17: when the wire fetch or the team fetch fails during
\* ingest_transfers, the error goes out of ingest_transfers and ends the run,
\* and the run has written to no table: from its start to the failure teams,
\* seasons, players, player_season_stats and tvi_scores are unchanged.
C17_FetchFailureWritesNothing ==
    [][/\ result' \in {On3WireError, EspnTeamsError} =>
            /\ pc \in {"idle", "done", "aborted", "teams"}
            /\ pc' = "aborted"
            /\ storeVars' = storeVars
       /\ pc' = "teams" => (Idle /\ storeVars' = storeVars)]_vars

C17_TeamFetchFailedOnFilledStore ==
    /\ pc = "aborted" /\ result = EspnTeamsError
    /\ teams # {} /\ seasons # {} /\ players # {}
    /\ player_season_stats # {} /\ tvi_scores # {}

-----
(* The pure functions on their own: Init draws the arguments, the actions   *)
(* apply compute_tvi and _normalize_stats to them                           *)

\* values a stats dict can hold under each key: <<>> is None
StatValues(k) ==
    CASE k = "snaps" -> {<<>>, <<0>>, <<400>>, <<800>>, <<801>>, <<1600>>}
      [] k = "yards" -> {<<0>>, <<600>>}
      [] k \in {"tds", "touchdowns"} -> {<<5>>}
      [] k \in {"ints", "interceptions"} -> {<<1>>}
      [] OTHER -> {<<10>>}

StatInKeys == {"snaps", "yards", "tds", "ints", "touchdowns", "interceptions",
               "games_played"}

\* the dicts over any subset of the keys
StatDicts ==
    UNION { { f \in [K -> UNION {StatValues(k) : k \in K}] :
                \A k \in K : f[k] \in StatValues(k) }
            : K \in SUBSET StatInKeys }

ClassYears == { None, <<>>, <<"J","R">>, <<"S","R">>, <<" ","s","r"," ">>,
                <<"S","e","n","i","o","r">>, <<"G","R">>, <<"s","o","p","h">>,
                <<"F","r">>, <<"j","u","n","i","o","r">>, <<"S","O">>,
                <<"S","o","p","h","o","m","o","r","e">>,
                <<"\t","F","R","E","S","H","M","A","N","\n">>,
                <<"R","S","-","J","R">>, <<" "," ">>, <<"s"," ","r">> }

MetaDicts == { <<>> } \cup { [k \in {"class_year"} |-> c] : c \in ClassYears }

YardCandidates == <<"yards", "receivingYards", "rushingYards", "passingYards",
                    "totalYards">>

RawValues == {<<>>, <<450>>, <<7>>}

\* raw stat records over any subset of the yardage field names
RawDicts ==
    UNION { [K -> RawValues]
            : K \in SUBSET {YardCandidates[i] : i \in 1..Len(YardCandidates)} }

InitFn ==
    /\ teams = {} /\ seasons = {} /\ players = {}
    /\ player_season_stats = {} /\ tvi_scores = {}
    /\ pc = "idle" /\ year = 0 /\ transfers = <<>> /\ team_index = <<>>
    /\ season_id = NoneId /\ idx = 1 /\ processed = 0
    /\ player_id = NoneId /\ current_team_id = NoneId
    /\ result = <<>> /\ hist = HistNone
    /\ tvi_out = <<>> /\ norm_out = <<>>
    /\ adapter_in = <<>> /\ adapter_out = <<>>
    /\ \/ /\ mode = "tvi_args"
          /\ stats_in \in StatDicts /\ meta_in \in MetaDicts /\ raw_in = <<>>
       \/ /\ mode = "raw_args"
          /\ raw_in \in RawDicts /\ stats_in = <<>> /\ meta_in = <<>>

CallComputeTvi ==
    /\ mode = "tvi_args"
    /\ tvi_out' = compute_tvi(stats_in, meta_in)
    /\ mode' = "tvi_done"
    /\ UNCHANGED <<storeVars, runVars, hist, stats_in, meta_in, raw_in, norm_out,
                   adapter_in, adapter_out>>

CallNormalizeStats ==
    /\ mode = "raw_args"
    /\ norm_out' = _normalize_stats(raw_in)
    /\ mode' = "norm_done"
    /\ UNCHANGED <<storeVars, runVars, hist, stats_in, meta_in, raw_in, tvi_out,
                   adapter_in, adapter_out>>

NextFn == CallComputeTvi \/ CallNormalizeStats

SpecFn == InitFn /\ [][NextFn]_vars

-----------------------------------------------------------------------------
(* Properties of _normalize_stats and compute_tvi, checked under SpecFn *)

\* the first candidate key present in raw with a non-null value, 0 when none is
RECURSIVE FirstPresent(_, _)
FirstPresent(raw, cands) ==
    IF cands = <<>> THEN 0
    ELSE IF Head(cands) \in DOMAIN raw /\ raw[Head(cands)] # <<>>
    THEN raw[Head(cands)][1]
    ELSE FirstPresent(raw, Tail(cands))

\* C8: the normalized "yards" is the value of the first of yards,
\* receivingYards, rushingYards, passingYards, totalYards that is present and
\* non-null in the raw stat record, and 0 only when none is.
C8_YardsCoalesced ==
    mode = "norm_done" =>
        norm_out["yards"] = <<FirstPresent(raw_in, YardCandidates)>>

SnapsGiven == StatOf(stats_in, "snaps")

\* C9 as stated: with touchdowns and interceptions given under the keys
\* "touchdowns" and "interceptions", efficiency is
\* (yards + 20*touchdowns + 5*interceptions) / snaps whenever snaps > 0.
C9_EfficiencySpecNames ==
    (mode = "tvi_done" /\ SnapsGiven > 0 /\ DOMAIN stats_in \cap {"tds", "ints"} = {}) =>
        RatEq(tvi_out.components.efficiency,
              Frac(StatOf(stats_in, "yards") + 20 * StatOf(stats_in, "touchdowns")
                     + 5 * StatOf(stats_in, "interceptions"),
                   SnapsGiven))

ExampleStats ==
    [k \in {"snaps", "yards", "tds", "ints", "games_played"} |->
        CASE k = "snaps" -> <<400>>
          [] k = "yards" -> <<600>>
          [] k = "tds" -> <<5>>
          [] k = "ints" -> <<1>>
          [] OTHER -> <<10>>]

ExampleMeta == [k \in {"class_year"} |-> <<"J","R">>]

\* C9 amended: with touchdowns and interceptions given under the keys "tds"
\* and "ints", efficiency is (yards + 20*tds + 5*ints) / snaps whenever
\* snaps > 0, and the example bundle (snaps 400, yards 600, tds 5, ints 1,
\* games_played 10, class_year "JR") scores usage 1/2, efficiency 705/400,
\* durability 10/12 and experience 4/5.
C9_EfficiencyCodeNames ==
    mode = "tvi_done" =>
        /\ SnapsGiven > 0 =>
             RatEq(tvi_out.components.efficiency,
                   Frac(StatOf(stats_in, "yards") + 20 * StatOf(stats_in, "tds")
                          + 5 * StatOf(stats_in, "ints"),
                        SnapsGiven))
        /\ (stats_in = ExampleStats /\ meta_in = ExampleMeta) =>
             /\ RatEq(tvi_out.components.usage, Frac(1, 2))
             /\ RatEq(tvi_out.components.efficiency, Frac(705, 400))
             /\ RatEq(tvi_out.components.durability, Frac(10, 12))
             /\ RatEq(tvi_out.components.experience, Frac(4, 5))

C9_ExampleScored ==
    mode = "tvi_done" /\ stats_in = ExampleStats /\ meta_in = ExampleMeta

SnapsZeroAbsentOrNull ==
    "snaps" \notin DOMAIN stats_in \/ stats_in["snaps"] \in {<<>>, <<0>>}

\* C10: when snaps is 0, absent or null, compute_tvi returns without a
\* division by zero, with efficiency 0 and usage 0, whatever the other stats.
C10_ZeroSnapsIsSafe ==
    (mode = "tvi_done" /\ SnapsZeroAbsentOrNull) =>
        /\ ~Raised(tvi_out.tvi)
        /\ \A c \in DOMAIN tvi_out.components : ~Raised(tvi_out.components[c])
        /\ RatEq(tvi_out.components.efficiency, Frac(0, 1))
        /\ RatEq(tvi_out.components.usage, Frac(0, 1))

C10_ZeroSnapsWithYards ==
    /\ mode = "tvi_done"
    /\ "snaps" \in DOMAIN stats_in /\ stats_in["snaps"] = <<0>>
    /\ StatOf(stats_in, "yards") = 600 /\ StatOf(stats_in, "tds") = 5

\* C11: for every non-negative snaps value the usage component is
\* min(snaps / 800, 1): snaps/800 up to 800 snaps, exactly 1 above (1600
\* snaps included), and never more than 1.
C11_UsageCapped ==
    mode = "tvi_done" =>
        LET usage == tvi_out.components.usage
        IN  /\ ~Raised(usage)
            /\ RatLe(usage, Frac(1, 1))
            /\ IF SnapsGiven <= 800
               THEN RatEq(usage, Frac(SnapsGiven, 800))
               ELSE usage = Frac(1, 1)

C11_SnapsAboveCap ==
    /\ mode = "tvi_done"
    /\ "snaps" \in DOMAIN stats_in /\ stats_in["snaps"] = <<1600>>
    /\ tvi_out.components.usage = Frac(1, 1)

\* the class_year the caller passed, None when the key is absent
ClassYearGiven == IF "class_year" \in DOMAIN meta_in THEN meta_in["class_year"] ELSE None

SeniorSpellings == { <<"S","R">>, <<" ","s","r"," ">>, <<"S","e","n","i","o","r">> }
JuniorSpellings == { <<"J","R">>, <<"j","u","n","i","o","r">> }
SophomoreSpellings == { <<"S","O">>, <<"s","o","p","h">>,
                        <<"S","o","p","h","o","m","o","r","e">> }
FreshmanSpellings == { <<"F","r">>, <<"\t","F","R","E","S","H","M","A","N","\n">> }

\* C12: experience depends only on the trimmed, lowercased class_year:
\* senior/sr give 1, junior/jr 4/5, sophomore/so/soph 3/5, freshman/fr 2/5 and
\* everything else 1/2, an absent, null or empty class_year and "GR" included;
\* "SR", " sr " and "Senior" all give 1.
C12_ExperienceByClassYear ==
    mode = "tvi_done" =>
        LET experience == tvi_out.components.experience
        IN  IF ClassYearGiven \in SeniorSpellings THEN RatEq(experience, Frac(1, 1))
            ELSE IF ClassYearGiven \in JuniorSpellings THEN RatEq(experience, Frac(4, 5))
            ELSE IF ClassYearGiven \in SophomoreSpellings THEN RatEq(experience, Frac(3, 5))
            ELSE IF ClassYearGiven \in FreshmanSpellings THEN RatEq(experience, Frac(2, 5))
            ELSE RatEq(experience, Frac(1, 2))

C12_PaddedLowercaseSenior ==
    /\ mode = "tvi_done"
    /\ ClassYearGiven = <<" ","s","r"," ">>
    /\ RatEq(tvi_out.components.experience, Frac(1, 1))

RECURSIVE Gcd(_, _)
Gcd(a, b) == IF b = 0 THEN a ELSE Gcd(b, a % b)

\* a ratio in lowest terms
Lowest(r) == LET g == Gcd(r.num, r.den) IN Frac(r.num \div g, r.den \div g)

\* C13: the returned tvi is the unweighted mean of the four returned
\* components (4 * tvi = usage + efficiency + durability + experience), the
\* components map has exactly the keys usage, efficiency, durability and
\* experience, and the call leaves both arguments as they were.
C13_TviIsMeanOfFour ==
    [][(mode = "tvi_args" /\ mode' = "tvi_done") =>
        LET c == tvi_out'.components
        IN  /\ DOMAIN c = {"usage", "efficiency", "durability", "experience"}
            /\ ~Raised(tvi_out'.tvi)
            /\ Lowest(Frac(4 * tvi_out'.tvi.num, tvi_out'.tvi.den))
                 = Lowest(RatAdd(RatAdd(RatAdd(c.usage, c.efficiency), c.durability),
                                 c.experience))
            /\ stats_in' = stats_in /\ meta_in' = meta_in]_vars

C13_FourDistinctComponents ==
    /\ mode = "tvi_done"
    /\ stats_in = ExampleStats /\ meta_in = ExampleMeta
    /\ Lowest(tvi_out.tvi) = Frac(187, 192)

-----------------------------------------------------------------------------
(* cfbd_client.py, on3_client.py, team_client.py: the fetches and the wire
   parser, each applied to what the transport or the page gave it *)

\* s[:n]
Slice(s, n) == SubSeq(s, 1, IF Len(s) < n THEN Len(s) ELSE n)

\* s.startswith(prefix)
StartsWith(s, prefix) ==
    Len(s) >= Len(prefix) /\ SubSeq(s, 1, Len(prefix)) = prefix

\* s.replace(old, "") for a non-empty old
RECURSIVE RemoveAll(_, _)
RemoveAll(s, old) ==
    IF Len(s) < Len(old) THEN s
    ELSE IF StartsWith(s, old) THEN RemoveAll(SubSeq(s, Len(old) + 1, Len(s)), old)
    ELSE <<Head(s)>> \o RemoveAll(Tail(s), old)

\* The outcome of a fetch: a raised RuntimeError, kept as the parts its message
\* is formatted from (<<>> for a part the message leaves out), or a value.
RuntimeError(status, url, excerpt) ==
    [raised |-> TRUE, status |-> status, url |-> url, excerpt |-> excerpt,
     value |-> <<>>]
Returns(v) ==
    [raised |-> FALSE, status |-> <<>>, url |-> <<>>, excerpt |-> <<>>, value |-> v]

\* cfbd_client._safe_json
_safe_json(response) ==
    IF response.is_json THEN Returns(response.text)
    ELSE RuntimeError(<<response.status_code>>, <<response.url>>,
                      <<Slice(response.text, 500)>>)

\* cfbd_client._get, from the response requests.get returned
_get(response) ==
    IF response.status_code # 200
    THEN RuntimeError(<<response.status_code>>, <<response.url>>,
                      <<Slice(response.text, 500)>>)
    ELSE _safe_json(response)

\* on3_client._fetch_wire_html, from the response requests.get returned
_fetch_wire_html(resp) ==
    IF resp.status_code # 200
    THEN RuntimeError(<<resp.status_code>>, <<>>, <<Slice(resp.text, 400)>>)
    ELSE Returns(resp.text)

\* team_client.get_fbs_teams up to its status check; the value is the page
\* text handed to the parser
EspnTeamsFetch(resp) ==
    IF resp.status_code # 200
    THEN RuntimeError(<<resp.status_code>>, <<>>, <<>>)
    ELSE Returns(resp.text)

Committed == <<"C","o","m","m","i","t","t","e","d">>
Expected == <<"E","x","p","e","c","t","e","d">>
Entered == <<"E","n","t","e","r","e","d">>
EnteredPrefix == <<"E","n","t","e","r","e","d"," ">>

\* on3_client._extract_status_and_date: the loop from a given line on, with
\* the status found so far; an "Entered " line ends the loop
RECURSIVE ExtractFrom(_, _)
ExtractFrom(lines, status) ==
    IF lines = <<>> THEN <<status, None>>
    ELSE LET line == strip(Head(lines))
         IN  IF StartsWith(line, EnteredPrefix)
             THEN <<Entered, strip(RemoveAll(line, EnteredPrefix))>>
             ELSE IF line \in {Committed, Expected}
             THEN ExtractFrom(Tail(lines), line)
             ELSE ExtractFrom(Tail(lines), status)

_extract_status_and_date(lines) == ExtractFrom(lines, None)

NonBlank(t) == strip(t) # <<>>

\* the stripped non-empty text fragments of a card container
TextLines(container) ==
    LET kept == SelectSeq(container, NonBlank)
    IN  [i \in 1..Len(kept) |-> strip(kept[i])]

\* on3_client._normalize_player_card: <<>> for None, <<record>> otherwise. Of
\* the record's fields the ones kept are those the wire loop and the card's
\* identity depend on; the others are computed from raw_lines.
_normalize_player_card(container) ==
    LET text_lines == TextLines(container)
        sd == _extract_status_and_date(text_lines)
    IN  IF Len(text_lines) < 2 THEN <<>>
        ELSE << [player_name |-> text_lines[2], position |-> text_lines[1],
                 status |-> sd[1], entered_date |-> sd[2],
                 raw_lines |-> text_lines] >>

\* the wire loop never recording a key as seen
SeenForgotten(seen_names, key) == seen_names

\* seen_names.add(key)
SeenAdd(seen_names, key) == seen_names \cup {key}

\* on3_client.get_on3_transfers: the loop over the remaining card containers
RECURSIVE WireLoop(_, _, _, _)
WireLoop(containers, players_so_far, seen_names, limit) ==
    IF containers = <<>> THEN players_so_far
    ELSE LET player == _normalize_player_card(Head(containers))
         IN  IF player = <<>>
             THEN WireLoop(Tail(containers), players_so_far, seen_names, limit)
             ELSE IF DedupKey(player[1]) \in seen_names
             THEN WireLoop(Tail(containers), players_so_far, seen_names, limit)
             ELSE LET kept == Append(players_so_far, player[1])
                  IN  IF limit # <<>> /\ Len(kept) >= limit[1] THEN kept
                      ELSE WireLoop(Tail(containers), kept,
                                    SeenAdd(seen_names, DedupKey(player[1])), limit)

\* get_on3_transfers(limit) on a page whose player links sit in these containers
get_on3_transfers(containers, limit) == WireLoop(containers, <<>>, {}, limit)

-----------------------------------------------------------------------------
(* Inputs for the adapters *)

MaxLines == 3
MaxCards == 3

CfbdUrl ==
    "https://api.collegefootballdata.com/api/portal/players?classification=transfer&year=2025"
WIRE_URL == "https://www.on3.com/transfer-portal/wire/football/"
ESPN_TEAMS_URL == "https://www.espn.com/college-football/teams"

\* response bodies: a short one, and ones longer than each excerpt length
BodyLengths == {2, 401, 501}
BodyOfLength(n) ==
    [i \in 1..n |-> IF i <= 400 THEN "a" ELSE IF i <= 500 THEN "b" ELSE "c"]

ResponsesFrom(url) ==
    [status_code : {200, 404, 503}, url : {url},
     text : {BodyOfLength(n) : n \in BodyLengths}, is_json : BOOLEAN]

FetchCalls ==
    UNION { [adapter : {a[1]}, response : ResponsesFrom(a[2])]
            : a \in {<<"cfbd", CfbdUrl>>, <<"on3", WIRE_URL>>,
                     <<"espn", ESPN_TEAMS_URL>>} }

SeqsUpTo(S, n) == UNION { [1..k -> S] : k \in 0..n }

LinePool == { <<"E","n","t","e","r","e","d"," ","1","/","2">>, Committed, <<" ","E","x","p","e","c","t","e","d"," ">>, <<"W","R">>,
              <<"E","n","t","e","r","e","d"," ">> }

CardPool == { <<<<"W","R">>, <<"A","l"," ","B","o">>, <<"E","n","t","e","r","e","d"," ","1","/","2">>>>,
              <<<<"W","R">>, <<"A","l"," ","B","o">>, Committed>>,
              <<<<"Q","B">>, <<" ","A","l"," ","B","o"," ">>, <<" ">>, Expected, <<"E","n","t","e","r","e","d"," ","1","/","2">>, Committed>>,
              <<<<"A","l"," ","B","o">>>>,
              <<<<"C","B">>, <<"C","y"," ","D","i">>>> }

Limits == {<<>>, <<1>>, <<2>>}

InitAdapters ==
    /\ teams = {} /\ seasons = {} /\ players = {}
    /\ player_season_stats = {} /\ tvi_scores = {}
    /\ pc = "idle" /\ year = 0 /\ transfers = <<>> /\ team_index = <<>>
    /\ season_id = NoneId /\ idx = 1 /\ processed = 0
    /\ player_id = NoneId /\ current_team_id = NoneId
    /\ result = <<>> /\ hist = HistNone
    /\ stats_in = <<>> /\ meta_in = <<>> /\ raw_in = <<>>
    /\ tvi_out = <<>> /\ norm_out = <<>>
    /\ adapter_out = <<>>
    /\ \/ mode = "fetch_args" /\ adapter_in \in FetchCalls
       \/ mode = "lines_args" /\ adapter_in \in SeqsUpTo(LinePool, MaxLines)
       \/ /\ mode = "wire_args"
          /\ adapter_in \in [containers : SeqsUpTo(CardPool, MaxCards), limit : Limits]

AdapterReturns(after, out) ==
    /\ adapter_out' = out
    /\ mode' = after
    /\ UNCHANGED <<storeVars, runVars, hist, stats_in, meta_in, raw_in, tvi_out,
                   norm_out, adapter_in>>

CallCfbdGet ==
    /\ mode = "fetch_args" /\ adapter_in.adapter = "cfbd"
    /\ AdapterReturns("fetch_done", _get(adapter_in.response))

CallFetchWireHtml ==
    /\ mode = "fetch_args" /\ adapter_in.adapter = "on3"
    /\ AdapterReturns("fetch_done", _fetch_wire_html(adapter_in.response))

CallGetFbsTeams ==
    /\ mode = "fetch_args" /\ adapter_in.adapter = "espn"
    /\ AdapterReturns("fetch_done", EspnTeamsFetch(adapter_in.response))

CallExtractStatusAndDate ==
    /\ mode = "lines_args"
    /\ AdapterReturns("lines_done", _extract_status_and_date(adapter_in))

CallGetOn3Transfers ==
    /\ mode = "wire_args"
    /\ AdapterReturns("wire_done",
                      get_on3_transfers(adapter_in.containers, adapter_in.limit))

NextAdapters ==
    \/ CallCfbdGet
    \/ CallFetchWireHtml
    \/ CallGetFbsTeams
    \/ CallExtractStatusAndDate
    \/ CallGetOn3Transfers

SpecAdapters == InitAdapters /\ [][NextAdapters]_vars

-----------------------------------------------------------------------------
(* Properties of the adapters, checked under SpecAdapters *)

\* C14: every adapter fetch (CFBD _get, On3 _fetch_wire_html, ESPN
\* get_fbs_teams) raises whenever the status is not success, and the error
\* carries the response status, the requested URL and a truncated excerpt of
\* the response body.
C14_FetchErrorCarriesDiagnostics ==
    (mode = "fetch_done" /\ adapter_in.response.status_code # 200) =>
        /\ adapter_out.raised
        /\ adapter_out.status = <<adapter_in.response.status_code>>
        /\ adapter_out.url = <<adapter_in.response.url>>
        /\ adapter_out.excerpt # <<>>
        /\ StartsWith(adapter_in.response.text, adapter_out.excerpt[1])

IsStatusLine(line) ==
    line \in {Committed, Expected} \/ StartsWith(line, EnteredPrefix)

\* the status of the last status line of a card, None when it has none
RECURSIVE LastStatusOf(_)
LastStatusOf(lines) ==
    IF lines = <<>> THEN None
    ELSE LET line == strip(lines[Len(lines)])
         IN  IF IsStatusLine(line)
             THEN (IF line \in {Committed, Expected} THEN line ELSE Entered)
             ELSE LastStatusOf(SubSeq(lines, 1, Len(lines) - 1))

\* C15: for any sequence of lines of one card, the status returned by
\* _extract_status_and_date is that of the last line that is "Committed",
\* "Expected" or starts with "Entered "; "Entered <date>" followed later by
\* "Committed" gives "Committed".
C15_LastStatusWins ==
    mode = "lines_done" => adapter_out[1] = LastStatusOf(adapter_in)

\* the record parsed from each container of the page, <<>> for a rejected one
ParsedCards == [i \in 1..Len(adapter_in.containers) |->
                    _normalize_player_card(adapter_in.containers[i])]

\* the position on the page of the first card parsed with the key k
FirstWithKey(k) ==
    CHOOSE i \in 1..Len(ParsedCards) :
        /\ ParsedCards[i] # <<>> /\ DedupKey(ParsedCards[i][1]) = k
        /\ \A h \in 1..(i - 1) :
              ParsedCards[h] = <<>> \/ DedupKey(ParsedCards[h][1]) # k

KeysOfPage ==
    {DedupKey(ParsedCards[i][1]) : i \in {h \in 1..Len(ParsedCards) : ParsedCards[h] # <<>>}}

\* the position on the page where the loop stopped: that of the record that
\* filled the limit, the end of the page otherwise
LoopStoppedAt ==
    IF /\ adapter_in.limit # <<>> /\ adapter_out # <<>>
       /\ Len(adapter_out) >= adapter_in.limit[1]
    THEN FirstWithKey(DedupKey(adapter_out[Len(adapter_out)]))
    ELSE Len(ParsedCards)

\* C16: the list get_on3_transfers returns has no two records with the same
\* (player_name, status, entered_date) key; for every key among the parsed
\* cards exactly the first card with that key is kept, and the kept records
\* are in the order of their first occurrence on the page.
C16_FirstCardPerKeyInOrder ==
    mode = "wire_done" =>
        /\ \A i, j \in 1..Len(adapter_out) :
              i < j => DedupKey(adapter_out[i]) # DedupKey(adapter_out[j])
        /\ \A j \in 1..Len(adapter_out) :
              /\ DedupKey(adapter_out[j]) \in KeysOfPage
              /\ adapter_out[j] = ParsedCards[FirstWithKey(DedupKey(adapter_out[j]))][1]
        /\ \A i, j \in 1..Len(adapter_out) :
              i < j => FirstWithKey(DedupKey(adapter_out[i]))
                         < FirstWithKey(DedupKey(adapter_out[j]))
        /\ \A i \in 1..LoopStoppedAt :
              ParsedCards[i] # <<>> =>
                  \E j \in 1..Len(adapter_out) :
                      DedupKey(adapter_out[j]) = DedupKey(ParsedCards[i][1])

\* a page with a repeated key between two other cards, read without a limit
C16_RepeatedKeyDropped ==
    /\ mode = "wire_done" /\ adapter_in.limit = <<>>
    /\ Len(adapter_in.containers) = 3
    /\ \A i \in 1..3 : ParsedCards[i] # <<>>
    /\ DedupKey(ParsedCards[1][1]) = DedupKey(ParsedCards[3][1])
    /\ ParsedCards[1] # ParsedCards[3]
    /\ DedupKey(ParsedCards[1][1]) # DedupKey(ParsedCards[2][1])
    /\ Len(adapter_out) = 2

====
